---- MODULE Spec2Model ----
(***************************************************************************)
(* Planner item lifecycle and reconciliation engine of proxyserver.ts:     *)
(* the planner_items / planner_events tables of db/schema.sql, the         *)
(* prepared statements, syncCanvasAssignments and the five HTTP handlers;  *)
(* and of the App component of App.tsx that shows the planner: hydration,  *)
(* archive with animation, restore.                                        *)
(*                                                                         *)
(* Representation.  A timestamp string is an integer number of minutes     *)
(* (of local wall-clock time); SQL NULL in a timestamp or integer column   *)
(* is NULL, in a text column NULLTEXT.  A title is a sequence of           *)
(* one-character strings, so that trim() is computed.  The columns notes,  *)
(* occurred_at and metadata are written by no statement that any handler   *)
(* branches on and are left out.                                           *)
(***************************************************************************)
EXTENDS Integers, Sequences, FiniteSets, TLC

VARIABLES
    items,          \* table planner_items: a set of rows
    seq,            \* sqlite_sequence of planner_items (AUTOINCREMENT)
    events,         \* table planner_events: a set of rows
    evSeq,          \* sqlite_sequence of planner_events
    clock,          \* the wall clock read by new Date()
    CANVAS_TOKEN,   \* whether process.env.CANVAS_TOKEN is set
    inflight,       \* sync requests suspended in await fetchAllPages(...)
    last,           \* history: the request that completed last
    archivedExt,    \* history: external ids archived by the user and not restored since
    overlap,        \* history: an archive committed while a sync pass awaited its fetch
    response,       \* the answer to the last GET /api/planner without sync
    client          \* the state of the App component of one browser

vars == <<items, seq, events, evSeq, clock, CANVAS_TOKEN, inflight, last, archivedExt,
          overlap, response, client>>

-----------------------------------------------------------------------------
(* Bounds of the model *)

MaxId == 2          \* rows ever inserted into planner_items
MaxEvents == 2      \* rows ever inserted into planner_events
MaxClock == 2       \* last clock value
MaxBatch == 2       \* entries of one fetched feed
MaxInflight == 1    \* sync requests suspended at once
MaxOverlap == 2     \* sync requests suspended at once under PassSpec
MaxRows == 3        \* rows of the table under ViewSpec
MaxEffects == 2     \* runs of the hydration effect under ClientSpec

-----------------------------------------------------------------------------
(* Values *)

NULL == -1
NULLTEXT == "NULL"
InvalidDate == -2   \* a due_at string that new Date() cannot parse
UNDEFINED == -3     \* undefined in a numeric property (JSON leaves the key out)
UNDEFINEDTEXT == "undefined"

ExtIds == {501, 502}

ArchiveReasonsAny == {"completed", "deleted", "archived"}

ArchiveReasons == {"completed", "deleted"}

-----------------------------------------------------------------------------
(* Strings *)

IsSpace(c) == c = " "

RECURSIVE TrimStart(_)
TrimStart(s) ==
    IF s # <<>> /\ IsSpace(Head(s)) THEN TrimStart(Tail(s)) ELSE s

RECURSIVE TrimEnd(_)
TrimEnd(s) ==
    IF s # <<>> /\ IsSpace(s[Len(s)]) THEN TrimEnd(SubSeq(s, 1, Len(s) - 1)) ELSE s

Trim(s) == TrimEnd(TrimStart(s))

Pad2(n) == IF n < 10 THEN "0" \o ToString(n) ELSE ToString(n)

-----------------------------------------------------------------------------
(* Rows and queries *)

selectItemByOriginActive(its, origin, externalId) ==
    {r \in its : r.origin = origin /\ r.external_id # NULL /\ r.external_id = externalId
                 /\ r.archived_reason = NULLTEXT}

\* A lookup that takes the assignment id for the id of the row
selectItemById(its, origin, externalId) ==
    {r \in its : r.id = externalId}

selectItemByOrigin(its, origin, externalId) ==
    {r \in its : r.origin = origin /\ r.external_id # NULL /\ r.external_id = externalId}

\* The unique index on (origin, external_id); SQLite treats NULLs as distinct.
planner_items_origin_external_unique(its, origin, externalId) ==
    externalId = NULL
    \/ ~ \E r \in its : r.origin = origin /\ r.external_id = externalId

getActiveTodos(its) == {r \in its : r.archived_reason = NULLTEXT}

\* The SELECT of an archive bucket without its WHERE on the reason
getArchivedAnyReason(its, reason) == {r \in its : r.archived_reason # NULLTEXT}

getArchivedByReason(its, reason) == {r \in its : r.archived_reason = reason}

mapRowToTodo(row) ==
    [id |-> row.id,
     external_id |-> IF row.external_id = NULL THEN UNDEFINED ELSE row.external_id,
     text |-> row.title,
     due_at |-> row.due_at,
     created_at |-> row.created_at,
     completed |-> row.completed # 0,
     origin |-> row.origin,
     scheduled_time |-> row.scheduled_time,
     archived_at |-> row.archived_at,
     archived_reason |-> IF row.archived_reason = NULLTEXT THEN UNDEFINEDTEXT
                         ELSE row.archived_reason]

\* a <= b in the order of ORDER BY k1, k2, k3 (ascending)
LexLeq(a, b) ==
    \/ a[1] < b[1]
    \/ a[1] = b[1] /\ a[2] < b[2]
    \/ a[1] = b[1] /\ a[2] = b[2] /\ a[3] <= b[3]

\* ORDER BY COALESCE(due_at, created_at), created_at: rows without due_at are
\* not set apart from the others
activeOrderUnflagged(r, q) ==
    LexLeq(<<0, IF r.due_at # NULL THEN r.due_at ELSE r.created_at, r.created_at>>,
           <<0, IF q.due_at # NULL THEN q.due_at ELSE q.created_at, q.created_at>>)

\* The ORDER BY of getActiveTodos: r may precede q.  The columns hold strings
\* of one format, which compare as the instants they denote.
activeOrder(r, q) ==
    LexLeq(<<IF r.due_at = NULL THEN 1 ELSE 0,
             IF r.due_at # NULL THEN r.due_at ELSE r.created_at,
             r.created_at>>,
           <<IF q.due_at = NULL THEN 1 ELSE 0,
             IF q.due_at # NULL THEN q.due_at ELSE q.created_at,
             q.created_at>>)

\* ORDER BY archived_at (ascending)
archivedOrderAscending(r, q) == r.archived_at <= q.archived_at

\* The ORDER BY of getArchivedByReason: archived_at DESC
archivedOrder(r, q) == r.archived_at >= q.archived_at

\* The arrangements of the rows S in a sequence
Arrangements(S) ==
    {s \in [1..Cardinality(S) -> S] :
        \A i, j \in 1..Cardinality(S) : i # j => s[i] # s[j]}

\* The results the SELECT of getActiveTodos may return: every arrangement in
\* which each row may precede the rows after it (the order of rows with equal
\* keys is not fixed)
selectActiveOrdered(its) ==
    {s \in Arrangements(getActiveTodos(its)) :
        \A i, j \in 1..Len(s) : i < j => activeOrder(s[i], s[j])}

\* The results the SELECT of getArchivedByReason may return
selectArchivedOrdered(its, reason) ==
    {s \in Arrangements(getArchivedByReason(its, reason)) :
        \A i, j \in 1..Len(s) : i < j => archivedOrder(s[i], s[j])}

MapRows(s) == [i \in 1..Len(s) |-> mapRowToTodo(s[i])]

\* The payloads getPlannerState may return for a table
getPlannerState(its) ==
    {[status |-> 200,
      active |-> MapRows(a),
      archive |-> [completed |-> MapRows(c), deleted |-> MapRows(d)]] :
        a \in selectActiveOrdered(its),
        c \in selectArchivedOrdered(its, "completed"),
        d \in selectArchivedOrdered(its, "deleted")}

-----------------------------------------------------------------------------
(* Statements *)

\* The insert into a table whose id is a plain INTEGER PRIMARY KEY: the row
\* gets the largest id of the table plus one, whatever sqlite_sequence holds.
insertManualItemRowid(its, id, title, due_at, scheduled_time, created_at) ==
    its \cup {[id |-> IF its = {} THEN 1
                      ELSE 1 + CHOOSE m \in {r.id : r \in its} :
                                  \A r \in its : r.id <= m,
               external_id |-> NULL, origin |-> "manual",
               title |-> title, due_at |-> due_at,
               scheduled_time |-> scheduled_time, created_at |-> created_at,
               completed |-> 0, archived_at |-> NULL,
               archived_reason |-> NULLTEXT]}

insertManualItem(its, id, title, due_at, scheduled_time, created_at) ==
    its \cup {[id |-> id, external_id |-> NULL, origin |-> "manual",
               title |-> title, due_at |-> due_at,
               scheduled_time |-> scheduled_time, created_at |-> created_at,
               completed |-> 0, archived_at |-> NULL,
               archived_reason |-> NULLTEXT]}

insertCanvasItem(its, id, external_id, title, due_at, scheduled_time, created_at) ==
    its \cup {[id |-> id, external_id |-> external_id, origin |-> "canvas",
               title |-> title, due_at |-> due_at,
               scheduled_time |-> scheduled_time, created_at |-> created_at,
               completed |-> 0, archived_at |-> NULL,
               archived_reason |-> NULLTEXT]}

updateCanvasItemOverwriteCreated(its, id, title, due_at, scheduled_time, created_at) ==
    {IF r.id = id
        THEN [r EXCEPT !.title = title, !.due_at = due_at,
                       !.scheduled_time = scheduled_time,
                       !.created_at = created_at]
        ELSE r : r \in its}

updateCanvasItemKeepsSchedule(its, id, title, due_at, scheduled_time, created_at) ==
    {IF r.id = id
        THEN [r EXCEPT !.title = title, !.due_at = due_at,
                       !.created_at = IF r.created_at # NULL THEN r.created_at
                                                             ELSE created_at]
        ELSE r : r \in its}

updateCanvasItem(its, id, title, due_at, scheduled_time, created_at) ==
    {IF r.id = id
        THEN [r EXCEPT !.title = title, !.due_at = due_at,
                       !.scheduled_time = scheduled_time,
                       !.created_at = IF r.created_at # NULL THEN r.created_at
                                                             ELSE created_at]
        ELSE r : r \in its}

archiveItemAlwaysCompletes(its, id, reason, archived_at) ==
    {IF r.id = id
        THEN [r EXCEPT !.completed = 1,
                       !.archived_at = archived_at,
                       !.archived_reason = reason]
        ELSE r : r \in its}

archiveItemStatement(its, id, reason, archived_at) ==
    {IF r.id = id
        THEN [r EXCEPT !.completed = IF reason = "completed" THEN 1 ELSE r.completed,
                       !.archived_at = archived_at,
                       !.archived_reason = reason]
        ELSE r : r \in its}

restoreItemKeepsArchivedAt(its, id) ==
    {IF r.id = id
        THEN [r EXCEPT !.completed = 0, !.archived_reason = NULLTEXT]
        ELSE r : r \in its}

restoreItemKeepsCompleted(its, id) ==
    {IF r.id = id
        THEN [r EXCEPT !.archived_at = NULL, !.archived_reason = NULLTEXT]
        ELSE r : r \in its}

restoreItemKeepsReason(its, id) ==
    {IF r.id = id
        THEN [r EXCEPT !.completed = 0, !.archived_at = NULL]
        ELSE r : r \in its}

restoreItemStatement(its, id) ==
    {IF r.id = id
        THEN [r EXCEPT !.completed = 0, !.archived_at = NULL,
                       !.archived_reason = NULLTEXT]
        ELSE r : r \in its}

deleteItemArchivedOnly(its, id) ==
    {r \in its : r.id # id \/ r.archived_reason = NULLTEXT}

deleteItemStatement(its, id) == {r \in its : r.id # id}

ChangesAlwaysOne(its, id) == 1

\* result.changes of an UPDATE or DELETE ... WHERE id = ?
Changes(its, id) == Cardinality({r \in its : r.id = id})

CascadeNone(evs, id) == evs

\* ON DELETE CASCADE of planner_events.planner_item_id
CascadeEvents(evs, id) == {e \in evs : e.planner_item_id # id}

insertEventDropped(evs, id, planner_item_id, event_type) == evs

insertEvent(evs, id, planner_item_id, event_type) ==
    evs \cup {[id |-> id, planner_item_id |-> planner_item_id,
               event_type |-> event_type]}

\* recordEvent that lets the exception of a rejected insert escape
recordEventRethrows(evs, sq, planner_item_id, event_type, fails) ==
    IF fails
       THEN [events |-> evs, evSeq |-> sq, threw |-> TRUE]
       ELSE [events |-> insertEvent(evs, sq + 1, planner_item_id, event_type),
             evSeq |-> sq + 1, threw |-> FALSE]

\* recordEvent: insertEvent.run in a try whose catch logs and returns.  fails:
\* the database rejects the insert (the statement changes nothing and
\* sqlite_sequence does not advance).  threw: an exception reaches the caller.
recordEvent(evs, sq, planner_item_id, event_type, fails) ==
    IF fails
       THEN [events |-> evs, evSeq |-> sq, threw |-> FALSE]
       ELSE [events |-> insertEvent(evs, sq + 1, planner_item_id, event_type),
             evSeq |-> sq + 1, threw |-> FALSE]

-----------------------------------------------------------------------------
(* Reconciliation *)

\* derivedTime without the test of Number.isNaN(parsed.getTime())
derivedTimeUnchecked(dueAt) ==
    IF dueAt = NULL THEN NULLTEXT
    ELSE IF dueAt = InvalidDate THEN "NaN:NaN"
    ELSE Pad2((dueAt \div 60) % 24) \o ":" \o Pad2(dueAt % 60)

derivedTime(dueAt) ==
    IF dueAt = NULL THEN NULLTEXT
    ELSE IF dueAt = InvalidDate THEN NULLTEXT
    ELSE Pad2((dueAt \div 60) % 24) \o ":" \o Pad2(dueAt % 60)

\* One entry of the fetched feed
Todo(has, id, name, due, created, locked) ==
    [has_assignment |-> has, id |-> id, name |-> name, due_at |-> due,
     created_at |-> created, locked_for_user |-> locked]

\* The entries of the feeds: assignments that the loop merges.  The entries
\* that the loop skips (locked, or without an assignment) leave every table as
\* it is; they are among FeedTodos.
Todos ==
    {Todo(TRUE, 501, <<"E">>, 600, 0, FALSE),
     Todo(TRUE, 501, <<"E", "2">>, NULL, NULL, FALSE),
     Todo(TRUE, 502, <<"E">>, 600, 0, FALSE)}

Batches == UNION {[1..n -> Todos] : n \in 0..MaxBatch}

\* The merge of a candidate that re-activates an archived row (the naive upsert).
MergeResurrect(st, todo, now) ==
    IF st.threw \/ ~todo.has_assignment \/ todo.locked_for_user THEN st
    ELSE
    LET externalId == todo.id
        dueAt == todo.due_at
        createdAt == IF todo.created_at # NULL THEN todo.created_at ELSE now
        existing == selectItemByOrigin(st.items, "canvas", externalId)
    IN  IF existing = {}
        THEN IF ~planner_items_origin_external_unique(st.items, "canvas", externalId)
             THEN [st EXCEPT !.threw = TRUE]
             ELSE [st EXCEPT !.items = insertCanvasItem(st.items, st.seq + 1, externalId,
                                           todo.name, dueAt, derivedTime(dueAt), createdAt),
                             !.seq = st.seq + 1]
        ELSE LET ex == CHOOSE r \in existing : TRUE
             IN [st EXCEPT !.items = updateCanvasItem(
                                restoreItemStatement(st.items, ex.id), ex.id,
                                todo.name, dueAt, derivedTime(dueAt), createdAt)]

\* The merge of a candidate that inserts without the lookup, into a table
\* whose index does not reject the duplicate.
MergeBlindInsert(st, todo, now) ==
    IF st.threw \/ ~todo.has_assignment \/ todo.locked_for_user THEN st
    ELSE [st EXCEPT !.items = insertCanvasItem(st.items, st.seq + 1, todo.id, todo.name,
                                  todo.due_at, derivedTime(todo.due_at),
                                  IF todo.created_at # NULL THEN todo.created_at ELSE now),
                    !.seq = st.seq + 1]

\* The merge of a candidate without the check of lines 258-260: the update
\* also runs for a row that is archived.
MergeUpdateArchived(st, todo, now) ==
    IF st.threw \/ ~todo.has_assignment \/ todo.locked_for_user THEN st
    ELSE
    LET externalId == todo.id
        dueAt == todo.due_at
        createdAt == IF todo.created_at # NULL THEN todo.created_at ELSE now
        existing == selectItemByOrigin(st.items, "canvas", externalId)
    IN  IF existing = {}
        THEN IF ~planner_items_origin_external_unique(st.items, "canvas", externalId)
             THEN [st EXCEPT !.threw = TRUE]
             ELSE [st EXCEPT !.items = insertCanvasItem(st.items, st.seq + 1, externalId,
                                           todo.name, dueAt, derivedTime(dueAt), createdAt),
                             !.seq = st.seq + 1]
        ELSE LET ex == CHOOSE r \in existing : TRUE
             IN [st EXCEPT !.items = updateCanvasItem(st.items, ex.id, todo.name,
                                         dueAt, derivedTime(dueAt), createdAt)]

\* The merge that skips only the entries without an assignment: an entry
\* locked for the user is merged like any other.
MergeLocked(st, todo, now) ==
    IF st.threw \/ ~todo.has_assignment THEN st
    ELSE
    LET externalId == todo.id
        dueAt == todo.due_at
        createdAt == IF todo.created_at # NULL THEN todo.created_at ELSE now
        existing == selectItemByOrigin(st.items, "canvas", externalId)
    IN  IF existing = {}
        THEN IF ~planner_items_origin_external_unique(st.items, "canvas", externalId)
             THEN [st EXCEPT !.threw = TRUE]
             ELSE [st EXCEPT !.items = insertCanvasItem(st.items, st.seq + 1, externalId,
                                           todo.name, dueAt, derivedTime(dueAt), createdAt),
                             !.seq = st.seq + 1]
        ELSE LET ex == CHOOSE r \in existing : TRUE
             IN IF ex.archived_reason # NULLTEXT THEN st
                ELSE [st EXCEPT !.items = updateCanvasItem(st.items, ex.id, todo.name,
                                              dueAt, derivedTime(dueAt), createdAt)]

\* The merge that stamps every new row with the current time, whatever
\* created_at the assignment carries.
MergeCreatedNow(st, todo, now) ==
    IF st.threw \/ ~todo.has_assignment \/ todo.locked_for_user THEN st
    ELSE
    LET externalId == todo.id
        dueAt == todo.due_at
        createdAt == now
        existing == selectItemByOrigin(st.items, "canvas", externalId)
    IN  IF existing = {}
        THEN IF ~planner_items_origin_external_unique(st.items, "canvas", externalId)
             THEN [st EXCEPT !.threw = TRUE]
             ELSE [st EXCEPT !.items = insertCanvasItem(st.items, st.seq + 1, externalId,
                                           todo.name, dueAt, derivedTime(dueAt), createdAt),
                             !.seq = st.seq + 1]
        ELSE LET ex == CHOOSE r \in existing : TRUE
             IN IF ex.archived_reason # NULLTEXT THEN st
                ELSE [st EXCEPT !.items = updateCanvasItem(st.items, ex.id, todo.name,
                                              dueAt, derivedTime(dueAt), createdAt)]

\* One iteration of the for loop of syncCanvasAssignments.  st.threw: an
\* exception left the loop in an earlier iteration.
MergeTodo(st, todo, now) ==
    IF st.threw \/ ~todo.has_assignment \/ todo.locked_for_user THEN st
    ELSE
    LET externalId == todo.id
        dueAt == todo.due_at
        createdAt == IF todo.created_at # NULL THEN todo.created_at ELSE now
        existing == selectItemByOrigin(st.items, "canvas", externalId)
    IN  IF existing = {}
        THEN IF ~planner_items_origin_external_unique(st.items, "canvas", externalId)
             THEN [st EXCEPT !.threw = TRUE]
             ELSE [st EXCEPT !.items = insertCanvasItem(st.items, st.seq + 1, externalId,
                                           todo.name, dueAt, derivedTime(dueAt), createdAt),
                             !.seq = st.seq + 1]
        ELSE LET ex == CHOOSE r \in existing : TRUE
             IN IF ex.archived_reason # NULLTEXT THEN st
                ELSE [st EXCEPT !.items = updateCanvasItem(st.items, ex.id, todo.name,
                                              dueAt, derivedTime(dueAt), createdAt)]

\* The entries of a feed that the loop does not skip
Candidates(todos) ==
    SelectSeq(todos, LAMBDA t : t.has_assignment /\ ~t.locked_for_user)

RECURSIVE MergeAll(_, _, _)
MergeAll(st, todos, now) ==
    IF todos = <<>> THEN st
    ELSE MergeAll(MergeTodo(st, Head(todos), now), Tail(todos), now)

\* A pass that mirrors the feed: it also removes the external rows the feed
\* no longer names.
syncCanvasAssignmentsPruning(its, sq, todos, now) ==
    LET st == MergeAll([items |-> its, seq |-> sq, threw |-> FALSE], todos, now)
        named == {todos[i].id : i \in 1..Len(todos)}
    IN [st EXCEPT !.items = {r \in st.items : r.origin = "manual"
                                               \/ r.external_id \in named}]

\* The loop of syncCanvasAssignments over the fetched feed
syncCanvasAssignments(its, sq, todos, now) ==
    MergeAll([items |-> its, seq |-> sq, threw |-> FALSE], todos, now)

-----------------------------------------------------------------------------
(* History *)

\* The record of a completed request: what was asked and the HTTP status of
\* the answer.  batch: for a sync pass, the candidates of the fetched feed (the
\* entries the loop does not skip).  target: for an archive answered 200, the
\* row as it was before the statement ran; for a restore answered 200 that
\* directly follows such an archive of the same id, that same row; for a sync
\* pass that directly follows a restore answered 200, the restored row as it
\* was before the pass.  again: a sync pass that directly follows a sync pass
\* over the same candidates; for an archive or a restore, that the insert of
\* its event was rejected.  before: the tables and their sequences as they
\* were when the request arrived at its handler (for a sync pass: when the
\* loop began; for the retry of a partial pass: when the partial pass began).
Done(op, id, reason, batch, status, target, again) ==
    [op |-> op, id |-> id, reason |-> reason, batch |-> batch, status |-> status,
     target |-> target, again |-> again,
     before |-> [items |-> items, seq |-> seq, events |-> events, evSeq |-> evSeq]]

Failed(op, id, reason, status) == Done(op, id, reason, <<>>, status, {}, FALSE)

\* overlap after a request other than a sync completes.  "pending": an archive
\* was answered 200 while the sync pass now suspended awaited its fetch;
\* "merged": the pass that completed last had such an archive; "raced": the
\* pass that completed last wrote a row that is archived; "passes": the pass
\* that completed last ran its loop while another pass awaited its fetch;
\* "passed": the pass that completed last had awaited its fetch while another
\* pass ran its loop; else "none".
Overlapped(archived) ==
    IF inflight = 0 THEN "none"
    ELSE IF archived THEN "pending"
    ELSE overlap

\* The three lists of App before any payload was applied
NoLists == [active |-> <<>>, completed |-> <<>>, deleted |-> <<>>]

\* The App component when it mounts.  lists: activeTodos, completedArchive,
\* deletedArchive; timers: the callbacks of archiveWithAnimation waiting in
\* setTimeout; effects: runs of the hydration effect so far; cancelled: the
\* runs whose cleanup has run; sync: the state of the sync-refresh request
\* issued last and owner the effect run that awaits it.  History: issued,
\* completed and failed count the sync-refresh requests, served the mutations
\* the server has answered, and latest holds the lists of the answer given
\* last.
ClientStart ==
    [lists |-> NoLists, timers |-> {}, hasHydratedRef |-> FALSE, isLoading |-> TRUE,
     effects |-> 0, cancelled |-> {}, sync |-> "idle", owner |-> 0,
     issued |-> 0, completed |-> 0, failed |-> 0, served |-> 0, latest |-> NoLists]

-----------------------------------------------------------------------------
(* Initial state: an empty database *)

Init ==
    /\ items = {}
    /\ seq = 0
    /\ events = {}
    /\ evSeq = 0
    /\ clock = 1
    /\ CANVAS_TOKEN \in BOOLEAN
    /\ inflight = 0
    /\ last = Done("none", 0, NULLTEXT, <<>>, 0, {}, FALSE)
    /\ archivedExt = {}
    /\ overlap = "none"
    /\ response = [status |-> 0, active |-> <<>>,
                   archive |-> [completed |-> <<>>, deleted |-> <<>>]]
    /\ client = ClientStart

-----------------------------------------------------------------------------
(* Actions *)

Tick ==
    /\ clock < MaxClock
    /\ clock' = clock + 1
    /\ UNCHANGED <<response, client, items, seq, events, evSeq, CANVAS_TOKEN, inflight, last, archivedExt,
                   overlap>>

\* A sync request that starts the fetch whether or not a token is set
SyncRequestFetchesAnyway ==
    /\ inflight < MaxInflight
    /\ inflight' = inflight + 1
    /\ UNCHANGED last
    /\ overlap' = IF inflight = 0 THEN "none" ELSE overlap
    /\ UNCHANGED <<response, client, items, seq, events, evSeq, clock, CANVAS_TOKEN, archivedExt>>

\* GET /api/planner?sync=true up to the await of the fetch
SyncRequest ==
    /\ IF ~CANVAS_TOKEN
       THEN /\ last' = Done("sync", 0, NULLTEXT, <<>>, 200, {}, FALSE)
            /\ UNCHANGED inflight
       ELSE /\ inflight < MaxInflight
            /\ inflight' = inflight + 1
            /\ UNCHANGED last
    /\ overlap' = IF inflight = 0 THEN "none" ELSE overlap
    /\ UNCHANGED <<response, client, items, seq, events, evSeq, clock, CANVAS_TOKEN, archivedExt>>

\* fetchAllPages resolves; the loop over the feed runs without an await
SyncFetched(todos) ==
    /\ inflight > 0
    /\ LET st == syncCanvasAssignments(items, seq, todos, clock)
       IN /\ st.seq <= MaxId
          /\ items' = st.items
          /\ seq' = st.seq
          /\ overlap' = IF \E q \in st.items : q.archived_reason # NULLTEXT /\ q \notin items
                           THEN "raced"
                        ELSE IF overlap = "pending" THEN "merged"
                        ELSE "none"
    /\ inflight' = inflight - 1
    /\ last' = Done("sync", 0, NULLTEXT, Candidates(todos), 200,
                     IF last.op = "restore" /\ last.status = 200
                        THEN {r \in items : r.id = last.id} ELSE {},
                     last.op = "sync" /\ last.batch = Candidates(todos))
    /\ UNCHANGED <<response, client, events, evSeq, clock, CANVAS_TOKEN, archivedExt>>

\* A fetch that fails on a later page after the entries of the earlier pages
\* were merged as they arrived.
SyncFetchFailedAfterMerge ==
    /\ inflight > 0
    /\ \E todos \in Batches :
          LET st == syncCanvasAssignments(items, seq, todos, clock)
          IN /\ st.seq <= MaxId
             /\ items' = st.items
             /\ seq' = st.seq
    /\ inflight' = inflight - 1
    /\ last' = Done("syncfail", 0, NULLTEXT, <<>>, 200, {}, FALSE)
    /\ overlap' = "none"
    /\ UNCHANGED <<response, client, events, evSeq, clock, CANVAS_TOKEN, archivedExt>>

\* fetchAllPages throws; the handler logs and answers with the state
SyncFetchFailed ==
    /\ inflight > 0
    /\ inflight' = inflight - 1
    /\ last' = Done("syncfail", 0, NULLTEXT, <<>>, 200, {}, FALSE)
    /\ overlap' = "none"
    /\ UNCHANGED <<response, client, items, seq, events, evSeq, clock, CANVAS_TOKEN, archivedExt>>

\* Bodies of a create-manual request: a title between spaces, and no title
ManualBodies ==
    {[text |-> <<" ", "m", " ">>, due_at |-> 600, scheduled_time |-> "08:30"],
     [text |-> <<>>, due_at |-> NULL, scheduled_time |-> NULLTEXT]}

\* A body whose title is one space
BlankBody == [text |-> <<" ">>, due_at |-> NULL, scheduled_time |-> NULLTEXT]

\* POST /api/planner/manual
AddManual(body) ==
    /\ IF body.text = <<>>
       THEN /\ last' = Failed("manual", 0, NULLTEXT, 400)
            /\ UNCHANGED <<items, seq>>
       ELSE /\ seq < MaxId
            /\ items' = insertManualItem(items, seq + 1, Trim(body.text), body.due_at,
                                         body.scheduled_time, clock)
            /\ seq' = seq + 1
            /\ last' = Done("manual", seq + 1, NULLTEXT, <<>>, 200, {}, FALSE)
    /\ overlap' = Overlapped(FALSE)
    /\ UNCHANGED <<response, client, events, evSeq, clock, CANVAS_TOKEN, inflight, archivedExt>>

ExtOf(its, id) == {r.external_id : r \in {x \in its : x.id = id /\ x.origin = "canvas"}}

\* POST /api/planner/:id/archive
Archive(id, reason) ==
    /\ IF id = 0 \/ reason \notin ArchiveReasons
       THEN /\ last' = Failed("archive", id, reason, 400)
            /\ UNCHANGED <<items, events, evSeq, archivedExt>>
       ELSE IF Changes(items, id) = 0
       THEN /\ last' = Failed("archive", id, reason, 404)
            /\ UNCHANGED <<items, events, evSeq, archivedExt>>
       ELSE /\ evSeq < MaxEvents
            /\ items' = archiveItemStatement(items, id, reason, clock)
            /\ events' = insertEvent(events, evSeq + 1, id, reason)
            /\ evSeq' = evSeq + 1
            /\ archivedExt' = archivedExt \cup ExtOf(items, id)
            /\ last' = Done("archive", id, reason, <<>>, 200,
                            {r \in items : r.id = id}, FALSE)
    /\ overlap' = Overlapped(last'.status = 200)
    /\ UNCHANGED <<response, client, seq, clock, CANVAS_TOKEN, inflight>>

\* POST /api/planner/:id/restore
Restore(id) ==
    /\ IF id = 0
       THEN /\ last' = Failed("restore", id, NULLTEXT, 400)
            /\ UNCHANGED <<items, events, evSeq, archivedExt>>
       ELSE IF Changes(items, id) = 0
       THEN /\ last' = Failed("restore", id, NULLTEXT, 404)
            /\ UNCHANGED <<items, events, evSeq, archivedExt>>
       ELSE /\ evSeq < MaxEvents
            /\ items' = restoreItemStatement(items, id)
            /\ events' = insertEvent(events, evSeq + 1, id, "restored")
            /\ evSeq' = evSeq + 1
            /\ archivedExt' = archivedExt \ ExtOf(items, id)
            /\ last' = Done("restore", id, NULLTEXT, <<>>, 200,
                            IF last.op = "archive" /\ last.status = 200 /\ last.id = id
                               THEN last.target ELSE {},
                            FALSE)
    /\ overlap' = Overlapped(FALSE)
    /\ UNCHANGED <<response, client, seq, clock, CANVAS_TOKEN, inflight>>

\* DELETE /api/planner/:id
Purge(id) ==
    /\ IF id = 0
       THEN /\ last' = Failed("purge", id, NULLTEXT, 400)
            /\ UNCHANGED <<items, events>>
       ELSE IF Changes(items, id) = 0
       THEN /\ last' = Failed("purge", id, NULLTEXT, 404)
            /\ UNCHANGED <<items, events>>
       ELSE /\ items' = deleteItemStatement(items, id)
            /\ events' = CascadeEvents(events, id)
            /\ last' = Done("purge", id, NULLTEXT, <<>>, 200, {}, FALSE)
    /\ overlap' = Overlapped(FALSE)
    /\ UNCHANGED <<response, client, seq, evSeq, clock, CANVAS_TOKEN, inflight, archivedExt>>

\* Ids a request names; 0 stands for a path segment that is no valid id
RequestIds == 0..MaxId

\* Bodies of an archive request: every id with a valid reason, and one
\* request with a reason that is neither
ArchiveRequests ==
    {<<id, reason>> : id \in RequestIds, reason \in ArchiveReasons}
    \cup {<<1, "archived">>}

Next ==
    \/ Tick
    \/ SyncRequest
    \/ \E todos \in Batches : SyncFetched(todos)
    \/ SyncFetchFailed
    \/ \E body \in ManualBodies : AddManual(body)
    \/ \E rq \in ArchiveRequests : Archive(rq[1], rq[2])
    \/ \E id \in RequestIds : Restore(id)
    \/ \E id \in RequestIds : Purge(id)

Spec == Init /\ [][Next]_vars

\* The requests served within one reading of the clock.  No statement and no
\* handler branches on the value of a timestamp, so what a run of Spec does to
\* the other columns, to the ids and to the events, some run without Tick
\* does too.
NoTickNext ==
    \/ SyncRequest
    \/ \E todos \in Batches : SyncFetched(todos)
    \/ SyncFetchFailed
    \/ \E body \in ManualBodies : AddManual(body)
    \/ \E rq \in ArchiveRequests : Archive(rq[1], rq[2])
    \/ \E id \in RequestIds : Restore(id)
    \/ \E id \in RequestIds : Purge(id)

NoTickSpec == Init /\ [][NoTickNext]_vars

-----------------------------------------------------------------------------
(* Reconciliation passes that overlap or stop early *)

\* GET /api/planner?sync=true arriving while other passes may await their fetch
SyncRequestOverlapping ==
    /\ CANVAS_TOKEN
    /\ inflight < MaxOverlap
    /\ inflight' = inflight + 1
    /\ UNCHANGED <<response, client, items, seq, events, evSeq, clock, CANVAS_TOKEN, last, archivedExt,
                   overlap>>

\* fetchAllPages resolves and the loop runs to its end or to the exception
\* of a rejected insert, which the handler catches and logs
PassCompletes(todos) ==
    /\ inflight > 0
    /\ LET st == syncCanvasAssignments(items, seq, todos, clock)
       IN /\ st.seq <= MaxId
          /\ items' = st.items
          /\ seq' = st.seq
          /\ last' = Done(IF st.threw THEN "syncthrew" ELSE "sync", 0, NULLTEXT,
                           Candidates(todos), 200, {}, FALSE)
    /\ inflight' = inflight - 1
    /\ overlap' = IF inflight > 1 THEN "passes"
                  ELSE IF overlap = "passes" THEN "passed"
                  ELSE "none"
    /\ UNCHANGED <<response, client, events, evSeq, clock, CANVAS_TOKEN, archivedExt>>

\* The loop is left by an exception after k candidates were merged (each
\* statement commits on its own); the record keeps the candidates of the feed
\* (batch), sqlite_sequence (id) and the table (target) as they were before.
PartialPass(todos, k) ==
    /\ inflight > 0
    /\ k < Len(Candidates(todos))
    /\ LET st == syncCanvasAssignments(items, seq, SubSeq(Candidates(todos), 1, k), clock)
       IN /\ st.seq <= MaxId
          /\ items' = st.items
          /\ seq' = st.seq
    /\ last' = Done("syncpartial", seq, NULLTEXT, Candidates(todos), 200, items, FALSE)
    /\ inflight' = inflight - 1
    /\ overlap' = "none"
    /\ UNCHANGED <<response, client, events, evSeq, clock, CANVAS_TOKEN, archivedExt>>

\* The next sync request gets the same feed and its loop runs to the end
RetryPass ==
    /\ inflight > 0
    /\ last.op = "syncpartial"
    /\ LET st == syncCanvasAssignments(items, seq, last.batch, clock)
       IN /\ st.seq <= MaxId
          /\ items' = st.items
          /\ seq' = st.seq
    /\ last' = [last EXCEPT !.op = "syncretry"]
    /\ inflight' = inflight - 1
    /\ overlap' = "none"
    /\ UNCHANGED <<response, client, events, evSeq, clock, CANVAS_TOKEN, archivedExt>>

\* The feeds of the passes: every entry is a candidate
PassFeeds == {todos \in Batches : Candidates(todos) = todos}

PassInit == Init /\ CANVAS_TOKEN

PassNext ==
    \/ Tick
    \/ SyncRequestOverlapping
    \/ last.op # "syncpartial" /\ \E todos \in PassFeeds : PassCompletes(todos)
    \/ last.op # "syncpartial" /\ \E id \in 1..MaxId : Archive(id, "deleted")
    \/ last.op # "syncpartial" /\ \E id \in 1..MaxId : Restore(id)
    \/ \E todos \in PassFeeds, k \in 0..MaxBatch : PartialPass(todos, k)
    \/ RetryPass

PassSpec == PassInit /\ [][PassNext]_vars

-----------------------------------------------------------------------------
(* Reconciliation passes over feeds with skipped and unparseable entries *)

\* Entries of the feed: an assignment due 09:05; the same assignment renamed,
\* with a due_at that does not parse and no created_at; an assignment without
\* due_at whose id is the id of the first row of the table; an assignment
\* locked for the user; an entry without an assignment.
FeedTodos ==
    {Todo(TRUE, 501, <<"E">>, 545, 0, FALSE),
     Todo(TRUE, 501, <<"E", "2">>, InvalidDate, NULL, FALSE),
     Todo(TRUE, 1, <<"X">>, NULL, 0, FALSE),
     Todo(TRUE, 501, <<"L">>, 600, 0, TRUE),
     Todo(FALSE, 0, <<>>, NULL, NULL, FALSE)}

FeedBatches == UNION {[1..n -> FeedTodos] : n \in 0..MaxBatch}

\* fetchAllPages resolves and the loop runs; the record of the pass keeps the
\* whole feed (batch), the skipped entries included, and the value that
\* new Date() had when the loop ran (id).
FeedFetched(todos) ==
    /\ inflight > 0
    /\ LET st == syncCanvasAssignments(items, seq, todos, clock)
       IN /\ st.seq <= MaxId
          /\ items' = st.items
          /\ seq' = st.seq
    /\ inflight' = inflight - 1
    /\ last' = Done("sync", clock, NULLTEXT, todos, 200, {}, FALSE)
    /\ overlap' = "none"
    /\ UNCHANGED <<response, client, events, evSeq, clock, CANVAS_TOKEN, archivedExt>>

FeedInit == Init /\ CANVAS_TOKEN

FeedNext ==
    \/ Tick
    \/ SyncRequest
    \/ \E todos \in FeedBatches : FeedFetched(todos)
    \/ AddManual([text |-> <<"m">>, due_at |-> 600, scheduled_time |-> "08:30"])
    \/ \E id \in 1..MaxId : Archive(id, "deleted")

FeedSpec == FeedInit /\ [][FeedNext]_vars

-----------------------------------------------------------------------------
(* Archive and restore when the insert of the event may be rejected *)

\* POST /api/planner/:id/archive.  The statements run outside a transaction:
\* the UPDATE is committed when recordEvent runs.  The record of the request
\* has again = TRUE when the insert of its event was rejected.
ArchiveUnderFault(id, reason, fails) ==
    /\ IF id = 0 \/ reason \notin ArchiveReasons
       THEN /\ last' = Failed("archive", id, reason, 400)
            /\ UNCHANGED <<items, events, evSeq, archivedExt>>
       ELSE IF Changes(items, id) = 0
       THEN /\ last' = Failed("archive", id, reason, 404)
            /\ UNCHANGED <<items, events, evSeq, archivedExt>>
       ELSE LET ev == recordEvent(events, evSeq, id, reason, fails)
            IN /\ ev.evSeq <= MaxEvents
               /\ items' = archiveItemStatement(items, id, reason, clock)
               /\ events' = ev.events
               /\ evSeq' = ev.evSeq
               /\ archivedExt' = archivedExt \cup ExtOf(items, id)
               /\ last' = Done("archive", id, reason, <<>>,
                               IF ev.threw THEN 500 ELSE 200,
                               {r \in items : r.id = id}, fails)
    /\ overlap' = Overlapped(last'.status = 200)
    /\ UNCHANGED <<response, client, seq, clock, CANVAS_TOKEN, inflight>>

\* POST /api/planner/:id/restore
RestoreUnderFault(id, fails) ==
    /\ IF id = 0
       THEN /\ last' = Failed("restore", id, NULLTEXT, 400)
            /\ UNCHANGED <<items, events, evSeq, archivedExt>>
       ELSE IF Changes(items, id) = 0
       THEN /\ last' = Failed("restore", id, NULLTEXT, 404)
            /\ UNCHANGED <<items, events, evSeq, archivedExt>>
       ELSE LET ev == recordEvent(events, evSeq, id, "restored", fails)
            IN /\ ev.evSeq <= MaxEvents
               /\ items' = restoreItemStatement(items, id)
               /\ events' = ev.events
               /\ evSeq' = ev.evSeq
               /\ archivedExt' = archivedExt \ ExtOf(items, id)
               /\ last' = Done("restore", id, NULLTEXT, <<>>,
                               IF ev.threw THEN 500 ELSE 200,
                               IF last.op = "archive" /\ last.status = 200 /\ last.id = id
                                  THEN last.target ELSE {},
                               fails)
    /\ overlap' = Overlapped(FALSE)
    /\ UNCHANGED <<response, client, seq, clock, CANVAS_TOKEN, inflight>>

FaultInit == Init /\ ~CANVAS_TOKEN

FaultNext ==
    \/ \E body \in ManualBodies \cup {BlankBody} : AddManual(body)
    \/ \E rq \in ArchiveRequests, fails \in BOOLEAN : ArchiveUnderFault(rq[1], rq[2], fails)
    \/ \E id \in RequestIds, fails \in BOOLEAN : RestoreUnderFault(id, fails)
    \/ \E id \in RequestIds : Purge(id)

FaultSpec == FaultInit /\ [][FaultNext]_vars

-----------------------------------------------------------------------------
(* Reading a step *)

\* The step completes a request of kind op: the clock does not advance and no
\* sync request becomes suspended; last' describes the request.
Completes(op) == clock' = clock /\ inflight' <= inflight /\ last'.op = op

\* The assignment ids of the candidates of a feed
MergedIds(batch) == {batch[i].id : i \in 1..Len(batch)}

Archived(r) == r.archived_reason # NULLTEXT

\* The lifecycle state of the row with an id in a table
Lifecycle(its, id) ==
    IF ~ \E r \in its : r.id = id THEN "removed"
    ELSE LET r == CHOOSE x \in its : x.id = id
         IN IF r.archived_reason = NULLTEXT THEN "ACTIVE"
            ELSE IF r.archived_reason = "completed" THEN "ARCHIVED:completed"
            ELSE "ARCHIVED:deleted"

-----------------------------------------------------------------------------
(* The state projection of a table *)

\* GET /api/planner without sync=true
GetPlanner ==
    /\ response' \in getPlannerState(items)
    /\ last' = Done("get", 0, NULLTEXT, <<>>, 200, {}, FALSE)
    /\ UNCHANGED <<items, seq, events, evSeq, clock, CANVAS_TOKEN, inflight, archivedExt,
                   overlap, client>>

\* What a row of the table holds besides its id: the due_at and created_at of
\* the feed entry it was inserted from, and whether, why and when the user
\* archived it
ViewDues == {NULL, 540, 600}
ViewStates ==
    {[archived_reason |-> NULLTEXT, archived_at |-> NULL]}
    \cup {[archived_reason |-> reason, archived_at |-> at] :
             reason \in ArchiveReasons, at \in 1..MaxClock}
ViewChoices ==
    {[due_at |-> due, created_at |-> created, state |-> st] :
        due \in ViewDues, created \in 1..MaxClock, st \in ViewStates}

\* The table after one sync pass inserted the rows 1..n and the user archived
\* some of them
ViewTable(n, f) ==
    {[id |-> i, external_id |-> 500 + i, origin |-> "canvas",
      title |-> <<"c">>, due_at |-> f[i].due_at,
      scheduled_time |-> derivedTime(f[i].due_at), created_at |-> f[i].created_at,
      completed |-> IF f[i].state.archived_reason = "completed" THEN 1 ELSE 0,
      archived_at |-> f[i].state.archived_at,
      archived_reason |-> f[i].state.archived_reason] : i \in 1..n}

\* One event per archived row, numbered in the order of archiving
ViewEvents(its) ==
    {[id |-> Cardinality({q \in its : /\ Archived(q)
                                       /\ \/ q.archived_at < r.archived_at
                                          \/ q.archived_at = r.archived_at /\ q.id <= r.id}),
      planner_item_id |-> r.id,
      event_type |-> r.archived_reason] : r \in {x \in its : Archived(x)}}

ViewInit ==
    \E n \in 0..MaxRows : \E f \in [1..n -> ViewChoices] :
       /\ items = ViewTable(n, f)
       /\ seq = n
       /\ events = ViewEvents(items)
       /\ evSeq = Cardinality(events)
       /\ clock = MaxClock
       /\ CANVAS_TOKEN = TRUE
       /\ inflight = 0
       /\ last = Done("none", 0, NULLTEXT, <<>>, 0, {}, FALSE)
       /\ archivedExt = {r.external_id : r \in {x \in items : Archived(x)}}
       /\ overlap = "none"
       /\ response = [status |-> 0, active |-> <<>>,
                      archive |-> [completed |-> <<>>, deleted |-> <<>>]]
       /\ client = ClientStart

ViewNext == GetPlanner

ViewSpec == ViewInit /\ [][ViewNext]_vars

-----------------------------------------------------------------------------
(* The App component: hydration, archive with animation, restore *)

\* The lists applyPlannerState takes from a payload
Lists(payload) ==
    [active |-> payload.active, completed |-> payload.archive.completed,
     deleted |-> payload.archive.deleted]

\* applyPlannerState: each list is replaced unless todoListsEqual finds it
\* equal to the one held
applyPlannerState(c, lists) ==
    [c EXCEPT !.lists = [active |-> IF c.lists.active = lists.active
                                       THEN c.lists.active ELSE lists.active,
                         completed |-> IF c.lists.completed = lists.completed
                                          THEN c.lists.completed ELSE lists.completed,
                         deleted |-> IF c.lists.deleted = lists.deleted
                                        THEN c.lists.deleted ELSE lists.deleted]]

\* The finally of hydrate of an effect run
HydrateSettles(c, run) ==
    IF run \in c.cancelled THEN c ELSE [c EXCEPT !.isLoading = FALSE]

\* The hydration effect runs (again): the cleanup of the earlier run sets its
\* cancelled, hydrate calls loadPlannerState({sync: true}), which returns at
\* once when hasHydratedRef is set and else sets it and sends the request.
EffectRuns ==
    /\ client.effects < MaxEffects
    /\ LET run == client.effects + 1
           c == [client EXCEPT !.effects = run, !.cancelled = 1..(run - 1)]
       IN client' = IF c.hasHydratedRef
                       THEN HydrateSettles(c, run)
                       ELSE [c EXCEPT !.hasHydratedRef = TRUE, !.sync = "pending",
                                      !.owner = run, !.issued = @ + 1]
    /\ UNCHANGED <<items, seq, events, evSeq, clock, CANVAS_TOKEN, inflight, last,
                   archivedExt, overlap, response>>

\* GET /api/planner?sync=true is answered 200 and loadPlannerState applies
\* the payload
SyncSucceeds ==
    /\ client.sync = "pending"
    /\ ~CANVAS_TOKEN
    /\ \E payload \in getPlannerState(items) :
          client' = HydrateSettles(
                       [applyPlannerState(client, Lists(payload))
                          EXCEPT !.sync = "succeeded", !.completed = @ + 1,
                                 !.latest = Lists(payload)],
                       client.owner)
    /\ UNCHANGED <<items, seq, events, evSeq, clock, CANVAS_TOKEN, inflight, last,
                   archivedExt, overlap, response>>

\* The sync-refresh request fails (fetch rejects or the status is not ok):
\* the catch of loadPlannerState clears hasHydratedRef and rethrows
SyncFails ==
    /\ client.sync = "pending"
    /\ client' = HydrateSettles(
                     [client EXCEPT !.hasHydratedRef = FALSE, !.sync = "failed",
                                    !.completed = @ + 1, !.failed = @ + 1],
                     client.owner)
    /\ UNCHANGED <<items, seq, events, evSeq, clock, CANVAS_TOKEN, inflight, last,
                   archivedExt, overlap, response>>

\* archiveWithAnimation for an item of the active list: the server archives
\* the row and answers with the payload, whose application is scheduled
\* after the animation (650 ms for completed, 360 ms for deleted)
ArchiveClick(id, reason) ==
    /\ \E i \in 1..Len(client.lists.active) : client.lists.active[i].id = id
    /\ Changes(items, id) > 0
    /\ evSeq < MaxEvents
    /\ items' = archiveItemStatement(items, id, reason, clock)
    /\ events' = insertEvent(events, evSeq + 1, id, reason)
    /\ evSeq' = evSeq + 1
    /\ archivedExt' = archivedExt \cup ExtOf(items, id)
    /\ last' = Done("archive", id, reason, <<>>, 200, {r \in items : r.id = id}, FALSE)
    /\ overlap' = Overlapped(TRUE)
    /\ \E payload \in getPlannerState(items') :
          client' = [client EXCEPT
                       !.timers = @ \cup {[n |-> client.served + 1,
                                           duration |-> IF reason = "completed"
                                                           THEN 650 ELSE 360,
                                           lists |-> Lists(payload)]},
                       !.served = @ + 1,
                       !.latest = Lists(payload)]
    /\ UNCHANGED <<seq, clock, CANVAS_TOKEN, inflight, response>>

\* A scheduled callback runs.  Of two timers the one set earlier with a delay
\* not longer than the other's runs first.
TimerFires(t) ==
    /\ t \in client.timers
    /\ \A u \in client.timers : ~(u.n < t.n /\ u.duration <= t.duration)
    /\ client' = [applyPlannerState(client, t.lists) EXCEPT !.timers = @ \ {t}]
    /\ UNCHANGED <<items, seq, events, evSeq, clock, CANVAS_TOKEN, inflight, last,
                   archivedExt, overlap, response>>

\* restoreTodo for an item of an archive list: the server restores the row
\* and the payload of the answer is applied at once
RestoreClick(id) ==
    /\ \/ \E i \in 1..Len(client.lists.completed) : client.lists.completed[i].id = id
       \/ \E i \in 1..Len(client.lists.deleted) : client.lists.deleted[i].id = id
    /\ Changes(items, id) > 0
    /\ evSeq < MaxEvents
    /\ items' = restoreItemStatement(items, id)
    /\ events' = insertEvent(events, evSeq + 1, id, "restored")
    /\ evSeq' = evSeq + 1
    /\ archivedExt' = archivedExt \ ExtOf(items, id)
    /\ last' = Done("restore", id, NULLTEXT, <<>>, 200, {}, FALSE)
    /\ overlap' = Overlapped(FALSE)
    /\ \E payload \in getPlannerState(items') :
          client' = [applyPlannerState(client, Lists(payload))
                       EXCEPT !.served = @ + 1, !.latest = Lists(payload)]
    /\ UNCHANGED <<seq, clock, CANVAS_TOKEN, inflight, response>>

\* A server without a token whose table holds two manual rows, and an App
\* that mounts
ClientInit ==
    /\ items = insertManualItem(
                  insertManualItem({}, 1, <<"a">>, 540, "09:00", 1),
                  2, <<"b">>, 600, "10:00", 1)
    /\ seq = 2
    /\ events = {}
    /\ evSeq = 0
    /\ clock = 1
    /\ CANVAS_TOKEN = FALSE
    /\ inflight = 0
    /\ last = Done("manual", 2, NULLTEXT, <<>>, 200, {}, FALSE)
    /\ archivedExt = {}
    /\ overlap = "none"
    /\ response = [status |-> 0, active |-> <<>>,
                   archive |-> [completed |-> <<>>, deleted |-> <<>>]]
    /\ client = ClientStart

ClientNext ==
    \/ EffectRuns
    \/ SyncSucceeds
    \/ SyncFails
    \/ \E id \in 1..MaxId, reason \in ArchiveReasons : ArchiveClick(id, reason)
    \/ \E t \in client.timers : TimerFires(t)
    \/ \E id \in 1..MaxId : RestoreClick(id)

ClientSpec == ClientInit /\ [][ClientNext]_vars

-----------------------------------------------------------------------------
(* Properties *)

\* C1  No resurrection: a sync pass whose feed holds a candidate with the
\* external_id of an archived row leaves archived_at, archived_reason and
\* completed of that row unchanged, and the row is not in the active list
\* after the pass.
C1_NoResurrection ==
    last.op = "sync" =>
       \A r \in last.before.items :
          (Archived(r) /\ r.external_id \in MergedIds(last.batch)) =>
             \E q \in items :
                /\ q.id = r.id
                /\ q.archived_at = r.archived_at
                /\ q.archived_reason = r.archived_reason
                /\ q.completed = r.completed
                /\ q \notin getActiveTodos(items)

C1_Witness ==
    /\ last.op = "sync"
    /\ \E r \in items : /\ Archived(r)
                        /\ r.origin = "canvas"
                        /\ r.external_id \in MergedIds(last.batch)

\* C2  Once the user has archived an external item (and not restored it
\* since), no row with its external_id is in the active list, whatever sync
\* and purge requests follow.
C2_NoResurfacing ==
    \A e \in archivedExt :
        ~ \E r \in getActiveTodos(items) : r.origin = "canvas" /\ r.external_id = e

\* C3  Idempotent sync: a sync pass that directly follows a sync pass over the
\* identical candidates (so also one over the identical feed) leaves the table and the active list as the first pass left
\* them, and no two rows share (origin, external_id).
C3_IdempotentSync ==
    (last.op = "sync" /\ last.again) =>
       /\ items = last.before.items
       /\ getActiveTodos(items) = getActiveTodos(last.before.items)
       /\ \A r, q \in items :
             (r.origin = q.origin /\ r.external_id # NULL
                /\ r.external_id = q.external_id) => r = q

C3_Witness ==
    /\ last.op = "sync"
    /\ last.again
    /\ \E r \in getActiveTodos(items) : r.external_id \in MergedIds(last.batch)

\* C4  I1: no two rows have the same origin and the same non-null external_id.
C4_UniqueOriginExternal ==
    \A r, q \in items :
        (r.origin = q.origin /\ r.external_id # NULL /\ r.external_id = q.external_id)
           => r = q

C4_Witness ==
    /\ last.op = "sync"
    /\ \E i, j \in 1..Len(last.batch) :
          /\ i < j
          /\ last.batch[i].id = last.batch[j].id
          /\ \E r \in items : r.origin = "canvas" /\ r.external_id = last.batch[i].id

\* C5  I2: for every row, archived_reason is null exactly when archived_at is
\* null.
C5_ArchiveFieldsTogether ==
    \A r \in items : (r.archived_reason = NULLTEXT) <=> (r.archived_at = NULL)

C5_Witness ==
    /\ last.op = "restore"
    /\ last.status = 200
    /\ \E e \in events : e.planner_item_id = last.id /\ e.event_type \in ArchiveReasons
    /\ \E r \in items : r.id = last.id /\ r.archived_at = NULL

\* C6  I3: for every row, completed is true exactly when archived_reason is
\* 'completed'.
C6_CompletedIffReason ==
    \A r \in items : (r.completed = 1) <=> (r.archived_reason = "completed")

\* C7  An archive request with a valid id and reason that finds no active row
\* with that id is answered not-found and changes neither the table nor the
\* event log.
C7_ArchiveNeedsActive ==
    [][(/\ Completes("archive")
        /\ last'.id # 0
        /\ last'.reason \in ArchiveReasons
        /\ ~ \E r \in getActiveTodos(items) : r.id = last'.id) =>
         /\ last'.status = 404
         /\ items' = items
         /\ events' = events]_vars

\* C8  A restore request with a valid id that finds no archived row with that
\* id is answered not-found and appends no event.
C8_RestoreNeedsArchived ==
    [][(/\ Completes("restore")
        /\ last'.id # 0
        /\ ~ \E r \in items : r.id = last'.id /\ Archived(r)) =>
         /\ last'.status = 404
         /\ items' = items
         /\ events' = events]_vars

\* C9  Every step moves the lifecycle state of an item only along
\* insert -> ACTIVE, ACTIVE -> ARCHIVED:*, ARCHIVED:* -> ACTIVE and any ->
\* removed, and never changes archived_at of a row that stays archived.
C9_LifecycleEdges ==
    [][\A id \in 1..MaxId :
         LET a == Lifecycle(items, id)
             b == Lifecycle(items', id)
         IN \/ /\ a = b
               /\ a \in {"ARCHIVED:completed", "ARCHIVED:deleted"} =>
                     (CHOOSE r \in items' : r.id = id).archived_at
                        = (CHOOSE r \in items : r.id = id).archived_at
            \/ a = "removed" /\ b = "ACTIVE"
            \/ a = "ACTIVE" /\ b \in {"ARCHIVED:completed", "ARCHIVED:deleted"}
            \/ a \in {"ARCHIVED:completed", "ARCHIVED:deleted"} /\ b = "ACTIVE"
            \/ b = "removed"]_vars

\* C10  Archive/restore round trip: archive of an active row directly followed
\* by restore of the same id yields the row as it was before the archive (id,
\* origin, external_id, title, due_at, scheduled_time, created_at), with
\* archived_at and archived_reason null and completed false.
C10_RoundTrip ==
    (last.op = "restore" /\ last.status = 200) =>
       \A t \in last.target :
          ~Archived(t) =>
             \E r \in items :
                /\ r.id = t.id
                /\ r.origin = t.origin
                /\ r.external_id = t.external_id
                /\ r.title = t.title
                /\ r.due_at = t.due_at
                /\ r.scheduled_time = t.scheduled_time
                /\ r.created_at = t.created_at
                /\ r.archived_at = NULL
                /\ r.archived_reason = NULLTEXT
                /\ r.completed = 0

C10_Witness ==
    /\ last.op = "restore"
    /\ last.status = 200
    /\ \E t \in last.target : ~Archived(t) /\ t.origin = "canvas"
    /\ \E e \in events : e.planner_item_id = last.id /\ e.event_type = "completed"

\* C11  After every archive answered 200, the row has archived_reason = the
\* reason asked, archived_at set, and completed true exactly when the reason
\* is 'completed' (so false after archive(id, 'deleted'), whatever the row was
\* before).
C11_ArchivePostcondition ==
    (last.op = "archive" /\ last.status = 200) =>
       \E r \in items :
          /\ r.id = last.id
          /\ r.archived_reason = last.reason
          /\ r.archived_at # NULL
          /\ (r.completed = 1) <=> (last.reason = "completed")

\* C12  The only step after which a row has completed = 1 that it did not
\* have before is an archive of that row with reason 'completed' answered
\* 200; no insert, update, archive as 'deleted', restore or purge sets it.
C12_OnlyArchiveCompletes ==
    \A q \in items :
       q.completed = 1 =>
          \/ \E r \in last.before.items : r.id = q.id /\ r.completed = 1
          \/ /\ last.op = "archive"
             /\ last.status = 200
             /\ last.reason = "completed"
             /\ last.id = q.id

C12_Witness ==
    /\ last.op = "archive"
    /\ last.status = 200
    /\ last.reason = "completed"
    /\ \E t \in last.target : t.completed = 0
    /\ \E r \in items : r.id = last.id /\ r.completed = 1

C14_PurgeCascades ==
    /\ \A e \in events : \E r \in items : r.id = e.planner_item_id
    /\ (last.op = "purge" /\ last.status = 200) =>
          /\ ~ \E r \in items : r.id = last.id
          /\ ~ \E e \in events : e.planner_item_id = last.id

\* The only row ever inserted had the two events ever appended and was purged.
C14_Witness ==
    /\ last.op = "purge"
    /\ last.status = 200
    /\ seq = 1
    /\ evSeq = 2
    /\ items = {}
    /\ events = {}

\* C15  A purge of an existing row, in whichever lifecycle state, is answered
\* 200, removes exactly that row and leaves every other row as it was.
C15_PurgeAnyState ==
    \A s \in {"ACTIVE", "ARCHIVED:completed", "ARCHIVED:deleted"} :
       (last.op = "purge" /\ last.id # 0 /\ Lifecycle(last.before.items, last.id) = s) =>
          /\ last.status = 200
          /\ ~ \E q \in items : q.id = last.id
          /\ items \subseteq last.before.items
          /\ \A r \in last.before.items : r.id # last.id => r \in items

\* An archived external row was purged while another row stays.
C15_Witness ==
    /\ last.op = "purge"
    /\ last.status = 200
    /\ items # {}
    /\ \E e \in archivedExt : ~ \E r \in items : r.external_id = e

\* C16  An archive (with a valid reason), a restore or a purge that names an
\* id of no row is answered not-found and changes neither table.
C16_NotFound ==
    \A op \in {"archive", "restore", "purge"} :
       (/\ last.op = op
        /\ last.id # 0
        /\ (op = "archive" => last.reason \in ArchiveReasons)
        /\ ~ \E r \in last.before.items : r.id = last.id) =>
          /\ last.status = 404
          /\ items = last.before.items
          /\ events = last.before.events

\* A restore of an id whose row was purged, with rows and events left.
C16_Witness ==
    /\ last.op = "restore"
    /\ last.status = 404
    /\ last.id <= seq
    /\ items # {}
    /\ events # {}

\* C17  I4 under interleaving: whatever requests committed while the pass
\* awaited its fetch, the pass leaves every row that is archived when its loop
\* runs exactly as it is, in every field.
C17_ArchivedImmutableToSync ==
    last.op = "sync" => \A r \in last.before.items : Archived(r) => r \in items

\* An archive committed during the fetch of the pass, and the feed carried
\* another title for the archived row.
C17_Witness ==
    /\ last.op = "sync"
    /\ overlap = "merged"
    /\ \E r \in items :
          /\ Archived(r)
          /\ r.origin = "canvas"
          /\ \E i \in 1..Len(last.batch) :
                last.batch[i].id = r.external_id /\ last.batch[i].name # r.title

\* The pass that completed last wrote a row that is archived.
Raced == last.op = "sync" /\ overlap = "raced"

\* C18 (as stated)  The known race is reachable: when a row was active while
\* a pass awaited its fetch, an archive of it committed before the pass wrote,
\* and the feed carries other values for it, the pass overwrites title, due_at
\* or scheduled_time of the now-archived row.
C18_RaceReachable ==
    (/\ last.op = "sync"
     /\ overlap # "none"
     /\ \E r \in items :
           /\ Archived(r)
           /\ r.origin = "canvas"
           /\ \E i \in 1..Len(last.batch) :
                 /\ last.batch[i].id = r.external_id
                 /\ \/ last.batch[i].name # r.title
                    \/ last.batch[i].due_at # r.due_at) => Raced

\* C18 (amended)  The race is not reachable: no pass writes a row that is
\* archived when the write commits; an archive that commits while the pass
\* awaits its fetch is seen by the lookup, and the row is skipped.
C18_NoRace == ~Raced

\* An archive committed during the fetch of the pass, and the feed carried
\* another due_at for the archived row.
C18_Witness ==
    /\ last.op = "sync"
    /\ overlap = "merged"
    /\ seq = 1
    /\ \E r \in items :
          /\ Archived(r)
          /\ r.origin = "canvas"
          /\ \E i \in 1..Len(last.batch) :
                last.batch[i].id = r.external_id /\ last.batch[i].due_at # r.due_at

\* C19  Reconciler frame: a pass leaves id, origin, external_id, created_at,
\* completed, archived_at and archived_reason of every existing row as they
\* were; created_at survives whatever created_at the candidate carries.
C19_ReconcilerFrame ==
    last.op = "sync" =>
       \A r \in last.before.items :
          \E q \in items :
             /\ q.id = r.id
             /\ q.origin = r.origin
             /\ q.external_id = r.external_id
             /\ q.created_at = r.created_at
             /\ q.completed = r.completed
             /\ q.archived_at = r.archived_at
             /\ q.archived_reason = r.archived_reason

\* A row inserted with created_at 0 was updated by a candidate without
\* created_at (so the pass offered the clock's value, at least 1).
C19_Witness ==
    /\ last.op = "sync"
    /\ Len(last.batch) = 1
    /\ \E r \in getActiveTodos(items) :
          /\ r.external_id = last.batch[1].id
          /\ r.title = last.batch[1].name
          /\ last.batch[1].created_at = NULL
          /\ r.created_at = 0

\* C20  Resync of an active external item: for a candidate whose external_id
\* is that of a row active before the pass (the last such candidate, when the
\* feed repeats the id), after the pass exactly one row has that external_id,
\* and its title and due_at are the candidate's and its scheduled_time is the
\* local hour:minute of the candidate's due_at, null when there is none.
C20_ResyncUpdates ==
    last.op = "sync" =>
       \A i \in 1..Len(last.batch) :
          LET c == last.batch[i]
          IN (/\ \E r \in getActiveTodos(last.before.items) :
                    r.origin = "canvas" /\ r.external_id = c.id
              /\ \A j \in (i + 1)..Len(last.batch) : last.batch[j].id # c.id) =>
                /\ Cardinality({q \in items : q.external_id = c.id}) = 1
                /\ \A q \in items :
                      q.external_id = c.id =>
                         /\ q.title = c.name
                         /\ q.due_at = c.due_at
                         /\ c.due_at = NULL => q.scheduled_time = NULLTEXT
                         /\ c.due_at = 600 => q.scheduled_time = "10:00"

\* A row inserted from a candidate without due_at and created_at was updated
\* by a later pass to the candidate due at minute 600.
C20_Witness ==
    /\ last.op = "sync"
    /\ Len(last.batch) = 1
    /\ \E r \in getActiveTodos(items) :
          /\ r.external_id = last.batch[1].id
          /\ r.created_at >= 1
          /\ r.title = <<"E">>
          /\ r.due_at = 600
          /\ r.scheduled_time = "10:00"

\* C21  The reconciler performs no deletions and no archiving: a pass removes
\* no row, and an external row whose external_id no candidate of the batch
\* carries is left as it was in every field (so it stays active).
C21_NoDeletions ==
    last.op = "sync" =>
       /\ \A r \in last.before.items : \E q \in items : q.id = r.id
       /\ \A r \in last.before.items :
             (r.origin = "canvas" /\ r.external_id \notin MergedIds(last.batch)) =>
                r \in items

\* A pass over a non-empty batch left an active external row the batch does
\* not name.
C21_Witness ==
    /\ last.op = "sync"
    /\ last.batch # <<>>
    /\ \E r \in getActiveTodos(items) :
          r.origin = "canvas" /\ r.external_id \notin MergedIds(last.batch)

\* The candidate of a batch that is merged last for an external_id
LastCandidate(batch, externalId) ==
    batch[CHOOSE i \in 1..Len(batch) :
            /\ batch[i].id = externalId
            /\ \A j \in (i + 1)..Len(batch) : batch[j].id # externalId]

\* C22  Restore lifts the skip rule: when the pass that directly follows a
\* restore of an external row has a candidate with the row's external_id, the
\* row carries the candidate's title, due_at and derived scheduled_time after
\* the pass, is active, and is the only row with that external_id.
C22_RestoreLiftsSkip ==
    last.op = "sync" =>
       \A t \in last.target :
          (t.origin = "canvas" /\ t.external_id \in MergedIds(last.batch)) =>
             LET c == LastCandidate(last.batch, t.external_id)
             IN /\ Cardinality({q \in items : q.origin = "canvas"
                                               /\ q.external_id = t.external_id}) = 1
                /\ \E q \in items :
                      /\ q.id = t.id
                      /\ ~Archived(q)
                      /\ q.title = c.name
                      /\ q.due_at = c.due_at
                      /\ c.due_at = NULL => q.scheduled_time = NULLTEXT
                      /\ c.due_at = 600 => q.scheduled_time = "10:00"

\* The row had been archived, was restored, and the pass changed its title.
C22_Witness ==
    /\ last.op = "sync"
    /\ \E t \in last.target :
          /\ t.origin = "canvas"
          /\ \E e \in events :
                e.planner_item_id = t.id /\ e.event_type \in {"completed", "deleted"}
          /\ \E q \in items : q.id = t.id /\ q.title # t.title

\* C23  Upstream failure isolation: a sync request whose fetch fails changes
\* neither table and is answered 200 with the state; the archive, restore,
\* purge or manual add that follows is answered by its own rules.
C23_UpstreamFailureIsolation ==
    [][/\ Completes("syncfail") =>
             /\ items' = items
             /\ seq' = seq
             /\ events' = events
             /\ evSeq' = evSeq
             /\ last'.status = 200
       /\ \A op \in {"archive", "restore", "purge"} :
             (/\ last.op = "syncfail"
              /\ Completes(op)
              /\ last'.id # 0
              /\ (op = "archive" => last'.reason \in {"completed", "deleted"})
              /\ \E r \in items : r.id = last'.id) =>
                /\ last'.status = 200
                /\ Lifecycle(items', last'.id) =
                      IF op = "purge" THEN "removed"
                      ELSE IF op = "restore" THEN "ACTIVE"
                      ELSE IF last'.reason = "completed" THEN "ARCHIVED:completed"
                      ELSE "ARCHIVED:deleted"
       /\ (last.op = "syncfail" /\ Completes("manual") /\ last'.status = 200) =>
             Cardinality(items') = Cardinality(items) + 1]_vars

\* A fetch failed while the store held an external row.
C23_Witness ==
    /\ last.op = "syncfail"
    /\ \E r \in items : r.origin = "canvas"

\* C25  Manual insert validation: a create-manual request whose title is empty
\* after trimming inserts no row, so no row has an empty title.
C25_ManualValidation == \A r \in items : r.title # <<>>

\* C26  An archive request whose reason is neither 'completed' nor 'deleted',
\* or whose id is no non-zero integer, is answered 400 and changes neither
\* table.
C26_InvalidArchive ==
    (/\ last.op = "archive"
     /\ \/ last.id = 0
        \/ last.reason \notin {"completed", "deleted"}) =>
       /\ last.status = 400
       /\ items = last.before.items
       /\ events = last.before.events

\* The request named an active row with the reason 'archived'.
C26_Witness ==
    /\ last.op = "archive"
    /\ last.status = 400
    /\ last.reason = "archived"
    /\ \E r \in getActiveTodos(items) : r.id = last.id

\* The columns of the rows of a table that a pass decides (all but created_at,
\* which takes the clock's value when the candidate carries none)
Rows(its) ==
    {[id |-> r.id, origin |-> r.origin, external_id |-> r.external_id,
      title |-> r.title, due_at |-> r.due_at, scheduled_time |-> r.scheduled_time,
      completed |-> r.completed, archived_at |-> r.archived_at,
      archived_reason |-> r.archived_reason] : r \in its}

\* C24  Safe retry after a partial pass: when a pass stopped after merging a
\* prefix of the batch and the full pass is run again over the same batch,
\* the table has the rows (external_id, title, due_at, scheduled_time, archive
\* state) that one uninterrupted pass over the batch would have left, and no
\* two rows share (origin, external_id).
C24_SafeRetry ==
    last.op = "syncretry" =>
       /\ Rows(items) =
             Rows(syncCanvasAssignments(last.target, last.id, last.batch, clock).items)
       /\ \A r, q \in items :
             (r.origin = q.origin /\ r.external_id # NULL
                /\ r.external_id = q.external_id) => r.id = q.id

\* The pass stopped after its first candidate had inserted a row; the retry
\* merged that candidate again and a second one.
C24_Witness ==
    /\ last.op = "syncretry"
    /\ Len(last.batch) = 2
    /\ Cardinality(items) > Cardinality(last.target)
    /\ \E r \in items : /\ r \notin last.target
                        /\ r.external_id = last.batch[1].id
                        /\ r.title = last.batch[2].name
                        /\ r.title # last.batch[1].name

\* C27  No pass ends by the exception of an insert that the unique index on
\* (origin, external_id) rejects: not for a batch that repeats an
\* external_id, and not for two passes that overlap in time.
C27_NoConflict == last.op # "syncthrew"

\* Of two passes that overlapped, over the same batch repeating an
\* external_id, the second completed and the row of that external_id exists.
C27_Witness ==
    /\ last.op = "sync"
    /\ overlap = "passed"
    /\ \E i, j \in 1..Len(last.batch) :
          /\ i < j
          /\ last.batch[i].id = last.batch[j].id
          /\ \E r \in items : r.origin = "canvas" /\ r.external_id = last.batch[i].id

\* C28  Best-effort audit log: when the insert of the event is rejected during
\* an archive or a restore, the request is still answered 200 (with the state
\* projection), the row is in the lifecycle state the request asked for, and
\* no event is recorded.
C28_BestEffortAudit ==
    [][((Completes("archive") \/ Completes("restore")) /\ last'.again) =>
         /\ last'.status = 200
         /\ Lifecycle(items', last'.id) =
               IF last'.op = "restore" THEN "ACTIVE"
               ELSE IF last'.reason = "completed" THEN "ARCHIVED:completed"
               ELSE "ARCHIVED:deleted"
         /\ events' = events
         /\ evSeq' = evSeq]_vars

\* An active row was archived, the insert of the event was rejected, and the
\* log holds no event of the row.
C28_Witness ==
    /\ last.op = "archive"
    /\ last.again
    /\ last.status = 200
    /\ \E t \in last.target : t.archived_reason = NULLTEXT
    /\ \E r \in items : r.id = last.id /\ r.archived_reason = last.reason
    /\ ~ \E e \in events : e.planner_item_id = last.id

\* C29  Active ordering: in the active list of the state projection every row
\* with a due_at precedes every row without one, rows with due_at are in
\* ascending due_at order, and rows with equal due_at, and rows without
\* due_at among themselves, are in ascending created_at order.
C29_ActiveOrdering ==
    response.status = 200 =>
       LET a == response.active
       IN \A i, j \in 1..Len(a) :
             i < j =>
                /\ a[i].due_at = NULL => a[j].due_at = NULL
                /\ (a[i].due_at # NULL /\ a[j].due_at # NULL) => a[i].due_at <= a[j].due_at
                /\ a[i].due_at = a[j].due_at => a[i].created_at <= a[j].created_at

\* The rows were inserted in the opposite order: the one without due_at
\* first, then two of equal due_at of which the later one was created earlier.
C29_Witness ==
    /\ response.status = 200
    /\ Len(response.active) = 3
    /\ response.active[3].due_at = NULL
    /\ response.active[3].id = 1
    /\ response.active[1].due_at = response.active[2].due_at
    /\ response.active[1].created_at < response.active[2].created_at
    /\ response.active[1].id > response.active[2].id

\* C30  Archived ordering: each archive bucket of the state projection lists
\* its rows in descending archived_at order.
C30_ArchivedOrdering ==
    response.status = 200 =>
       \A b \in {response.archive.completed, response.archive.deleted} :
          \A i, j \in 1..Len(b) : i < j => b[i].archived_at >= b[j].archived_at

\* The row archived last is first although it was inserted last, and the
\* other bucket holds a row archived later still
C30_Witness ==
    /\ response.status = 200
    /\ Len(response.archive.completed) = 2
    /\ response.archive.completed[1].archived_at > response.archive.completed[2].archived_at
    /\ response.archive.completed[1].id > response.archive.completed[2].id
    /\ Len(response.archive.deleted) = 1

\* C31  Item ids are never reused: every insert gives the new row an id larger
\* than any id given before (sqlite_sequence never decreases and bounds every
\* id of the table, purged rows included), and origin and external_id of a
\* row never change.
C31_IdsNeverReused ==
    /\ seq >= last.before.seq
    /\ \A q \in items : q.id <= seq
    /\ \A q \in items : (~ \E r \in last.before.items : r.id = q.id) => q.id > last.before.seq
    /\ \A r \in last.before.items, q \in items :
          r.id = q.id => (q.origin = r.origin /\ q.external_id = r.external_id)

\* Row 1 was purged and the insert that followed gave its row the id 2.
C31_Witness ==
    /\ last.op \in {"manual", "sync"}
    /\ last.status = 200
    /\ seq = 2
    /\ \E r \in items : r.id = 2
    /\ ~ \E r \in items : r.id = 1
    /\ events = {}

\* C37  Without a token a refresh with sync=true starts no fetch, changes no
\* table and is answered 200 with the state projection.
C37_NoToken ==
    /\ ~CANVAS_TOKEN => inflight = 0
    /\ (~CANVAS_TOKEN /\ last.op = "sync") =>
          /\ last.status = 200
          /\ items = last.before.items
          /\ seq = last.before.seq
          /\ events = last.before.events
          /\ evSeq = last.before.evSeq

C37_Witness ==
    /\ ~CANVAS_TOKEN
    /\ last.op = "sync"
    /\ last.status = 200
    /\ items # {}

\* Positions of a list of the projection that hold the item with an id
Positions(list, id) == {i \in 1..Len(list) : list[i].id = id}

\* C35  Projection partition: every stored row appears exactly once in the
\* three lists of the state projection, in the list its archived_reason
\* selects, and every item of the projection is a stored row.
C35_ProjectionPartition ==
    response.status = 200 =>
       LET a == response.active
           c == response.archive.completed
           d == response.archive.deleted
       IN /\ \A r \in items :
                /\ Cardinality(Positions(a, r.id)) =
                      (IF r.archived_reason = NULLTEXT THEN 1 ELSE 0)
                /\ Cardinality(Positions(c, r.id)) =
                      (IF r.archived_reason = "completed" THEN 1 ELSE 0)
                /\ Cardinality(Positions(d, r.id)) =
                      (IF r.archived_reason = "deleted" THEN 1 ELSE 0)
          /\ \A list \in {a, c, d} : \A i \in 1..Len(list) :
                \E r \in items : /\ list[i].id = r.id
                                  /\ list[i].text = r.title
                                  /\ list[i].origin = r.origin
                                  /\ list[i].due_at = r.due_at

\* A table of three rows, one in each list
C35_Witness ==
    /\ response.status = 200
    /\ Cardinality(items) = 3
    /\ Len(response.active) = 1
    /\ Len(response.archive.completed) = 1
    /\ Len(response.archive.deleted) = 1

\* C32  An entry without an assignment or locked for the user causes no
\* insert and no update: every row after a pass is a row as it was before the
\* pass, or an external row that carries the id and the name of an entry the
\* loop does not skip; and the pass ends as a pass over those entries alone.
C32_SkippedEntries ==
    last.op = "sync" =>
       LET cands == Candidates(last.batch)
           st == syncCanvasAssignments(last.before.items, last.before.seq, cands, last.id)
       IN /\ \A q \in items :
                \/ q \in last.before.items
                \/ /\ q.origin = "canvas"
                   /\ \E i \in 1..Len(last.batch) :
                         /\ last.batch[i].has_assignment
                         /\ ~last.batch[i].locked_for_user
                         /\ last.batch[i].id = q.external_id
                         /\ last.batch[i].name = q.title
          /\ items = st.items
          /\ seq = st.seq

\* The feed of the last pass had only entries that are skipped, one of them
\* locked and with the external_id and another name than an active row.
C32_Witness ==
    /\ last.op = "sync"
    /\ Len(last.batch) = 2
    /\ Candidates(last.batch) = <<>>
    /\ \E i \in 1..Len(last.batch) :
          /\ last.batch[i].locked_for_user
          /\ \E r \in items : /\ r.origin = "canvas"
                              /\ r.external_id = last.batch[i].id
                              /\ r.archived_reason = NULLTEXT
                              /\ r.title # last.batch[i].name

FirstCandidate(batch, externalId) ==
    batch[CHOOSE i \in 1..Len(batch) :
            /\ batch[i].id = externalId
            /\ \A j \in 1..(i - 1) : batch[j].id # externalId]

\* C33  First sync of a new external item: for a candidate whose external_id
\* has no row before the pass, the pass leaves exactly one row with that
\* external_id; the row has a new id, origin canvas, is active, not completed,
\* carries the candidate's title and due_at (of the last candidate, when the
\* feed names the id more than once) and the created_at of the candidate that
\* inserted it, or the time of the pass when that candidate has none.
C33_FirstSync ==
    last.op = "sync" =>
       LET cands == Candidates(last.batch)
       IN \A e \in MergedIds(cands) :
             (~ \E r \in last.before.items : r.origin = "canvas" /\ r.external_id = e) =>
                /\ Cardinality({q \in items : q.external_id = e}) = 1
                /\ \A q \in items :
                      q.external_id = e =>
                         /\ q.id > last.before.seq
                         /\ q.origin = "canvas"
                         /\ q.archived_at = NULL
                         /\ q.archived_reason = NULLTEXT
                         /\ q.completed = 0
                         /\ q.title = LastCandidate(cands, e).name
                         /\ q.due_at = LastCandidate(cands, e).due_at
                         /\ q.created_at =
                               IF FirstCandidate(cands, e).created_at # NULL
                                  THEN FirstCandidate(cands, e).created_at
                                  ELSE last.id

\* The last pass inserted the only row of the table at clock 2 from a
\* candidate without created_at; of the candidates the only other one
\* carries a created_at.
C33_Witness ==
    /\ last.op = "sync"
    /\ clock = 2
    /\ seq = 1
    /\ \E r \in items : /\ r.id = 1
                        /\ r.origin = "canvas"
                        /\ r.created_at = 2
                        /\ r.external_id \in MergedIds(Candidates(last.batch))
                        /\ FirstCandidate(Candidates(last.batch), r.external_id).created_at
                              = NULL

\* The scheduled_time of a due_at of the feeds, written out
ExpectedTime(dueAt) ==
    CASE dueAt = NULL -> NULLTEXT
      [] dueAt = InvalidDate -> NULLTEXT
      [] dueAt = 545 -> "09:05"
      [] dueAt = 600 -> "10:00"

\* C34  Derived scheduled_time: every row a pass inserts or updates carries
\* the scheduled_time derived from the due_at of its (last) candidate: null
\* when the due_at is absent or does not parse, else its zero-padded HH:MM,
\* whatever scheduled_time the row had before.
C34_DerivedTime ==
    last.op = "sync" =>
       LET cands == Candidates(last.batch)
       IN \A q \in items :
             (/\ q.origin = "canvas"
              /\ q.external_id \in MergedIds(cands)
              /\ ~ \E r \in last.before.items : r.id = q.id /\ Archived(r)) =>
                q.scheduled_time = ExpectedTime(LastCandidate(cands, q.external_id).due_at)

\* The last pass merged the candidate due 09:05 and then the candidate with
\* the unparseable due_at into the same row, which has no scheduled_time
C34_Witness ==
    /\ last.op = "sync"
    /\ Len(last.batch) = 2
    /\ last.batch[1].due_at = 545
    /\ last.batch[2].due_at = InvalidDate
    /\ last.batch[1].id = last.batch[2].id
    /\ Candidates(last.batch) = last.batch
    /\ \E r \in items : /\ r.external_id = last.batch[2].id
                        /\ r.due_at = InvalidDate
                        /\ r.scheduled_time = NULLTEXT
                        /\ r.archived_reason = NULLTEXT

\* C36  A pass leaves every manual row unchanged in every field, also when a
\* candidate's assignment id equals the id of a manual row.
C36_ManualUntouched ==
    last.op = "sync" =>
       \A r \in last.before.items : r.origin = "manual" => r \in items

\* The last pass had a candidate with assignment id 1 and inserted it as row
\* 2 next to the manual row 1.
C36_Witness ==
    /\ last.op = "sync"
    /\ 1 \in MergedIds(Candidates(last.batch))
    /\ \E r \in items : r.id = 1 /\ r.origin = "manual"
    /\ \E r \in items : r.id = 2 /\ r.origin = "canvas" /\ r.external_id = 1

\* C38  Client view freshness: once no timer is pending, the lists held by
\* the client are the lists of the answer the server gave last; the payload
\* of an earlier archive answer, applied late by its timer, never replaces
\* the payload of a later answer.
C38_ClientFreshness ==
    (client.timers = {} /\ client.served > 0) => client.lists = client.latest

\* C39  Client hydration: at most one sync-refresh request is pending or has
\* succeeded, and isLoading is false only after a sync-refresh request has
\* completed.
C39_ClientHydration ==
    /\ client.issued - client.failed <= 1
    /\ ~client.isLoading => client.completed > 0

====
